---- MODULE Spec2Model ----
(***************************************************************************)
(* Keyboard shortcut registry and display resolver of the mail app         *)
(* (apps/mail/config/shortcuts.ts).                                        *)
(*                                                                         *)
(* A JavaScript string is modelled as a sequence of characters; a          *)
(* character is a one-letter TLA+ string, or a "U+xxxx" token for a        *)
(* non-ASCII code point (every such token is one UTF-16 code unit, so       *)
(* Len is the string's .length).                                           *)
(***************************************************************************)
EXTENDS Integers, Sequences, FiniteSets

\* ----------------------------------------------------------------- bounds
\* longest keys array of a synthetic shortcut passed to the display resolver
MaxKeys == 2
\* longest synthetic batch passed to enhanceShortcutsWithMapping
MaxBatch == 2
\* how often the layout mapper's state may change while one call is running
MaxLayoutChanges == 1

\* ---------------------------------------------------------------- strings
LowerLetters ==
  <<"a", "b", "c", "d", "e", "f", "g", "h", "i", "j", "k", "l", "m",
    "n", "o", "p", "q", "r", "s", "t", "u", "v", "w", "x", "y", "z">>

UpperLetters ==
  <<"A", "B", "C", "D", "E", "F", "G", "H", "I", "J", "K", "L", "M",
    "N", "O", "P", "Q", "R", "S", "T", "U", "V", "W", "X", "Y", "Z">>

Digits == {"0", "1", "2", "3", "4", "5", "6", "7", "8", "9"}

IndexIn(c, letters) == CHOOSE i \in 1..Len(letters) : letters[i] = c

IsLower(c) == \E i \in 1..Len(LowerLetters) : LowerLetters[i] = c

IsUpper(c) == \E i \in 1..Len(UpperLetters) : UpperLetters[i] = c

\* String.prototype.toLowerCase on one character
LowerChar(c) == IF IsUpper(c) THEN <<LowerLetters[IndexIn(c, UpperLetters)]>> ELSE <<c>>

\* String.prototype.toUpperCase on one character; the sharp s (U+00DF) has the
\* two-letter upper case "SS"
UpperChar(c) ==
  IF IsLower(c) THEN <<UpperLetters[IndexIn(c, LowerLetters)]>>
  ELSE IF c = "U+00DF" THEN <<"S", "S">>
  ELSE <<c>>

RECURSIVE ToLowerCase(_)
ToLowerCase(s) == IF s = <<>> THEN <<>> ELSE LowerChar(Head(s)) \o ToLowerCase(Tail(s))

RECURSIVE ToUpperCase(_)
ToUpperCase(s) == IF s = <<>> THEN <<>> ELSE UpperChar(Head(s)) \o ToUpperCase(Tail(s))

\* String.prototype.includes
Includes(s, sub) ==
  \E i \in 0..(Len(s) - Len(sub)) : SubSeq(s, i + 1, i + Len(sub)) = sub

\* concatenation of a sequence of sequences
RECURSIVE Flatten(_)
Flatten(ss) == IF ss = <<>> THEN <<>> ELSE Head(ss) \o Flatten(Tail(ss))

\* ----------------------------------------------------------- labels, keys
Cmd == <<"U+2318">>
Opt == <<"U+2325">>
ShiftGlyph == <<"U+21E7">>
BackspaceGlyph == <<"U+232B">>
EnterGlyph == <<"U+21B5">>
Ctrl == <<"C", "t", "r", "l">>
Alt == <<"A", "l", "t">>
Esc == <<"E", "s", "c">>
Space == <<"S", "p", "a", "c", "e">>
Mac == <<"M", "a", "c">>

k_mod == <<"m", "o", "d">>
k_meta == <<"m", "e", "t", "a">>
k_ctrl == <<"c", "t", "r", "l">>
k_control == <<"c", "o", "n", "t", "r", "o", "l">>
k_alt == <<"a", "l", "t">>
k_shift == <<"s", "h", "i", "f", "t">>
k_escape == <<"e", "s", "c", "a", "p", "e">>
k_backspace == <<"b", "a", "c", "k", "s", "p", "a", "c", "e">>
k_enter == <<"e", "n", "t", "e", "r">>
k_space == <<"s", "p", "a", "c", "e">>
k_click == <<"c", "l", "i", "c", "k">>

\* the case labels of the switch
OverrideNames ==
  {k_mod, k_meta, k_ctrl, k_control, k_alt, k_shift, k_escape, k_backspace,
   k_enter, k_space}

\* ------------------------------------------------ external collaborators
\* The layout mapper (utils/keyboard-layout-map) and the code lookup
\* (utils/keyboard-utils) are imported; their contracts are total functions.

\* getDetectedLayout() -> { layout: string } | undefined
Undefined == [defined |-> FALSE, layout |-> ""]

Layout(id) == [defined |-> TRUE, layout |-> id]

\* layout is a lower-case identifier; "qwerty" is the default
LayoutIds == {"qwerty", "azerty", "qwertz"}

DetectedLayouts == {Undefined} \cup {Layout(id) : id \in LayoutIds}

\* the code-to-label tables the mapper may hold
Tables == {"pass", "azerty", "qwertz"}

\* the mapper object's state
MapperStates == [detected : DetectedLayouts, table : Tables]

GetDetectedLayout(m) == m.detected

\* getKeyCodeFromKey(keyName) -> KeyCode: a letter is Key<L>, a digit is
\* Digit<d>, "-" is Minus, any other name passes through
GetKeyCodeFromKey(key) ==
  IF Len(key) = 1 /\ (IsLower(key[1]) \/ IsUpper(key[1]))
    THEN <<"K", "e", "y">> \o ToUpperCase(key)
  ELSE IF Len(key) = 1 /\ key[1] \in Digits
    THEN <<"D", "i", "g", "i", "t">> \o key
  ELSE IF key = <<"-">>
    THEN <<"M", "i", "n", "u", "s">>
  ELSE key

KeyCode(letter) == <<"K", "e", "y", letter>>

\* getKeyForCode(code) -> string, read from the mapper's current table
GetKeyForCode(m, code) ==
  CASE m.table = "pass" -> code
    [] m.table = "azerty" ->
         CASE code = KeyCode("A") -> <<"q">>
           [] code = KeyCode("Q") -> <<"a">>
           [] code = KeyCode("Z") -> <<"w">>
           [] code = KeyCode("W") -> <<"z">>
           [] code = <<"D", "i", "g", "i", "t", "1">> -> <<"&">>
           [] OTHER -> code
    [] m.table = "qwertz" ->
         CASE code = KeyCode("Z") -> <<"y">>
           [] code = KeyCode("Y") -> <<"z">>
           [] code = KeyCode("A") -> <<"a">>
           [] code = KeyCode("G") -> <<"g">>
           [] code = <<"D", "i", "g", "i", "t", "1">> -> <<"1">>
           [] code = <<"M", "i", "n", "u", "s">> -> <<"U+00DF">>
           [] OTHER -> <<"U", "n", "i", "d", "e", "n", "t", "i", "f", "i", "e", "d">>

\* mapKeys(codes): batch resolution, same cardinality and order as its input
MapKeys(m, codes) == [i \in 1..Len(codes) |-> GetKeyForCode(m, codes[i])]

\* one entry of the log of service calls
Call(fn, arg) == [fn |-> fn, arg |-> arg]

\* ------------------------------------------------------- display resolver
Result(label, calls) == [ret |-> label, calls |-> calls]

\* variant: the switch compares the key as written
SwitchSubject_caseSensitive(key) == key

\* line 34: the subject of the switch
SwitchSubject(key) == ToLowerCase(key)

\* variant: the Mac glyph on every platform
ModLabel_alwaysCmd(platform) == Cmd

\* line 36
ModLabel(platform) == IF Includes(platform, Mac) THEN Cmd ELSE Ctrl

\* line 43
AltLabel(platform) == IF Includes(platform, Mac) THEN Opt ELSE Alt

\* variant: the default layout is not exempted
LayoutAware_noDefault(detectedLayout) ==
  /\ detectedLayout.defined
  /\ detectedLayout.layout /= ""

\* line 56: detectedLayout?.layout && detectedLayout.layout !== 'qwerty'
LayoutAware(detectedLayout) ==
  /\ detectedLayout.defined
  /\ detectedLayout.layout /= ""
  /\ detectedLayout.layout /= "qwerty"

\* variant: the mapped label is upper-cased whatever its length
MappedLabel_alwaysUpper(mappedKey) == ToUpperCase(mappedKey)

\* line 59
MappedLabel(mappedKey) == IF Len(mappedKey) = 1 THEN ToUpperCase(mappedKey) ELSE mappedKey

\* variant: the key name is never upper-cased
DefaultLabel_verbatim(key) == key

\* line 61
DefaultLabel(key) == IF Len(key) = 1 THEN ToUpperCase(key) ELSE key

\* lines 34-62: the label of one key and the service calls made for it.
\* detectedLayout is the layout the switch tests, m is the mapper's state
\* when the key is resolved.
keyLabel(key, detectedLayout, m, platform) ==
  LET subject == SwitchSubject(key)
      keyCode == GetKeyCodeFromKey(key)
      mappedKey == GetKeyForCode(m, keyCode)
  IN CASE subject = k_mod -> Result(ModLabel(platform), <<>>)
       [] subject = k_meta -> Result(Cmd, <<>>)
       [] subject = k_ctrl \/ subject = k_control -> Result(Ctrl, <<>>)
       [] subject = k_alt -> Result(AltLabel(platform), <<>>)
       [] subject = k_shift -> Result(ShiftGlyph, <<>>)
       [] subject = k_escape -> Result(Esc, <<>>)
       [] subject = k_backspace -> Result(BackspaceGlyph, <<>>)
       [] subject = k_enter -> Result(EnterGlyph, <<>>)
       [] subject = k_space -> Result(Space, <<>>)
       [] OTHER ->
            IF LayoutAware(detectedLayout)
              THEN Result(MappedLabel(mappedKey),
                          <<Call("getKeyCodeFromKey", key),
                            Call("getKeyForCode", keyCode)>>)
              ELSE Result(DefaultLabel(key), <<>>)

\* variant: the callback reads the detected layout itself, once per key
displayKey_rereads(key, detectedLayout, m, platform) ==
  LET r == keyLabel(key, GetDetectedLayout(m), m, platform)
  IN Result(r.ret, <<Call("getDetectedLayout", <<>>)>> \o r.calls)

\* line 32: the callback of shortcut.keys.map closes over the local
\* detectedLayout that line 30 assigned
displayKey(key, detectedLayout, m, platform) ==
  keyLabel(key, detectedLayout, m, platform)

\* variant: empty labels are filtered out of the result
getDisplayKeysForShortcut_dropsEmpty(shortcut, m, platform) ==
  LET detectedLayout == GetDetectedLayout(m)
      per == [i \in 1..Len(shortcut.keys) |->
                displayKey(shortcut.keys[i], detectedLayout, m, platform)]
  IN [ret |-> SelectSeq([i \in 1..Len(shortcut.keys) |-> per[i].ret],
                        LAMBDA label : label /= <<>>),
      calls |-> <<Call("getDetectedLayout", <<>>)>>
                  \o Flatten([i \in 1..Len(shortcut.keys) |-> per[i].calls])]

\* getDisplayKeysForShortcut run to completion under mapper state m
getDisplayKeysForShortcut(shortcut, m, platform) ==
  LET detectedLayout == GetDetectedLayout(m)
      per == [i \in 1..Len(shortcut.keys) |->
                displayKey(shortcut.keys[i], detectedLayout, m, platform)]
  IN [ret |-> [i \in 1..Len(shortcut.keys) |-> per[i].ret],
      calls |-> <<Call("getDetectedLayout", <<>>)>>
                  \o Flatten([i \in 1..Len(shortcut.keys) |-> per[i].calls])]

\* { ...shortcut, displayKeys, mappedKeys }
EnhancedRecord(shortcut, displayKeys, mappedKeys) ==
  [f \in (DOMAIN shortcut) \cup {"displayKeys", "mappedKeys"} |->
     IF f = "displayKeys" THEN displayKeys
     ELSE IF f = "mappedKeys" THEN mappedKeys
     ELSE shortcut[f]]

\* variant: the key names are handed to mapKeys without the code lookup
KeyCodes_raw(shortcut) == shortcut.keys

\* shortcut.keys.map(getKeyCodeFromKey)
KeyCodes(shortcut) ==
  [j \in 1..Len(shortcut.keys) |-> GetKeyCodeFromKey(shortcut.keys[j])]

\* the calls of shortcut.keys.map(getKeyCodeFromKey) and of mapKeys
MappingCalls(shortcut) ==
  [j \in 1..Len(shortcut.keys) |-> Call("getKeyCodeFromKey", shortcut.keys[j])]
    \o <<Call("mapKeys", KeyCodes(shortcut))>>

\* variant: records flagged ignore are left out of the result
enhanceShortcutsWithMapping_skipsIgnored(shortcuts, m, platform) ==
  LET kept == SelectSeq(shortcuts,
                        LAMBDA s : ~("ignore" \in DOMAIN s /\ s["ignore"]))
      shown == [i \in 1..Len(kept) |->
                  getDisplayKeysForShortcut(kept[i], m, platform)]
  IN [ret |-> [i \in 1..Len(kept) |->
                 EnhancedRecord(kept[i], shown[i].ret,
                                MapKeys(m, KeyCodes(kept[i])))],
      calls |-> Flatten([i \in 1..Len(kept) |->
                           shown[i].calls \o MappingCalls(kept[i])])]

\* enhanceShortcutsWithMapping run to completion under mapper state m
enhanceShortcutsWithMapping(shortcuts, m, platform) ==
  LET shown == [i \in 1..Len(shortcuts) |->
                  getDisplayKeysForShortcut(shortcuts[i], m, platform)]
  IN [ret |-> [i \in 1..Len(shortcuts) |->
                 EnhancedRecord(shortcuts[i], shown[i].ret,
                                MapKeys(m, KeyCodes(shortcuts[i])))],
      calls |-> Flatten([i \in 1..Len(shortcuts) |->
                           shown[i].calls \o MappingCalls(shortcuts[i])])]

\* --------------------------------------------------------------- registry
\* threadDisplayShortcuts: lines 82-125
threadDisplayShortcuts ==
  <<
    [keys |-> << <<"r">> >>,
     action |-> "reply",
     type |-> "single",
     description |-> "Reply to email",
     scope |-> "thread-display"],
    [keys |-> << <<"a">> >>,
     action |-> "replyAll",
     type |-> "single",
     description |-> "Reply all",
     scope |-> "thread-display"],
    [keys |-> << <<"f">> >>,
     action |-> "forward",
     type |-> "single",
     description |-> "Forward email",
     scope |-> "thread-display"],
    [keys |-> << <<"m", "e", "t", "a">>, <<"b", "a", "c", "k", "s", "p", "a", "c", "e">> >>,
     action |-> "delete",
     type |-> "single",
     description |-> "Move to Bin",
     scope |-> "thread-display"]
  >>

\* navigation: lines 127-177
navigation ==
  <<
    [keys |-> << <<"g">>, <<"d">> >>,
     action |-> "goToDrafts",
     type |-> "combination",
     description |-> "Go to drafts",
     scope |-> "navigation"],
    [keys |-> << <<"g">>, <<"i">> >>,
     action |-> "inbox",
     type |-> "combination",
     description |-> "Go to inbox",
     scope |-> "navigation"],
    [keys |-> << <<"g">>, <<"t">> >>,
     action |-> "sentMail",
     type |-> "combination",
     description |-> "Go to sent mail",
     scope |-> "navigation"],
    [keys |-> << <<"g">>, <<"s">> >>,
     action |-> "goToSettings",
     type |-> "combination",
     description |-> "Go to general settings",
     scope |-> "navigation"],
    [keys |-> << <<"g">>, <<"a">> >>,
     action |-> "goToArchive",
     type |-> "combination",
     description |-> "Go to archive",
     scope |-> "navigation"],
    [keys |-> << <<"g">>, <<"b">> >>,
     action |-> "goToBin",
     type |-> "combination",
     description |-> "Go to bin",
     scope |-> "navigation"],
    [keys |-> << <<"?">>, <<"s", "h", "i", "f", "t">> >>,
     action |-> "helpWithShortcuts",
     type |-> "combination",
     description |-> "Show keyboard shortcuts",
     scope |-> "navigation"]
  >>

\* globalShortcuts: lines 179-225
globalShortcuts ==
  <<
    [keys |-> << <<"m", "o", "d">>, <<"z">> >>,
     action |-> "undoLastAction",
     type |-> "single",
     description |-> "Undo last action",
     scope |-> "global",
     preventDefault |-> TRUE],
    [keys |-> << <<"v">> >>,
     action |-> "openVoice",
     type |-> "single",
     description |-> "Open voice",
     scope |-> "global"],
    [keys |-> << <<"c">> >>,
     action |-> "newEmail",
     type |-> "single",
     description |-> "Compose new email",
     scope |-> "global",
     preventDefault |-> TRUE],
    [keys |-> << <<"m", "o", "d">>, <<"k">> >>,
     action |-> "commandPalette",
     type |-> "combination",
     description |-> "Open command palette",
     scope |-> "global"],
    [keys |-> << <<"m", "o", "d">>, <<"s", "h", "i", "f", "t">>, <<"f">> >>,
     action |-> "clearAllFilters",
     type |-> "combination",
     description |-> "Clear all filters",
     scope |-> "global",
     preventDefault |-> TRUE]
  >>

\* mailListShortcuts: lines 227-406
mailListShortcuts ==
  <<
    [keys |-> << <<"r">> >>,
     action |-> "markAsRead",
     type |-> "single",
     description |-> "Mark as read",
     scope |-> "mail-list"],
    [keys |-> << <<"u">> >>,
     action |-> "markAsUnread",
     type |-> "single",
     description |-> "Mark as unread",
     scope |-> "mail-list"],
    [keys |-> << <<"i">> >>,
     action |-> "markAsImportant",
     type |-> "single",
     description |-> "Mark as important",
     scope |-> "mail-list"],
    [keys |-> << <<"a">> >>,
     action |-> "bulkArchive",
     type |-> "single",
     description |-> "Bulk archive",
     scope |-> "mail-list"],
    [keys |-> << <<"d">> >>,
     action |-> "bulkDelete",
     type |-> "single",
     description |-> "Bulk delete",
     scope |-> "mail-list"],
    [keys |-> << <<"s">> >>,
     action |-> "bulkStar",
     type |-> "single",
     description |-> "Bulk star",
     scope |-> "mail-list"],
    [keys |-> << <<"e">> >>,
     action |-> "archiveEmail",
     type |-> "single",
     description |-> "Archive email",
     scope |-> "mail-list"],
    [keys |-> << <<"e", "s", "c", "a", "p", "e">> >>,
     action |-> "exitSelectionMode",
     type |-> "single",
     description |-> "Exit selection mode",
     scope |-> "mail-list"],
    [keys |-> << <<"m", "o", "d">>, <<"a">> >>,
     action |-> "selectAll",
     type |-> "combination",
     description |-> "Select all emails",
     scope |-> "mail-list",
     preventDefault |-> TRUE],
    [keys |-> << <<"1">> >>,
     action |-> "showImportant",
     type |-> "single",
     description |-> "Show important",
     scope |-> "mail-list"],
    [keys |-> << <<"2">> >>,
     action |-> "showAllMail",
     type |-> "single",
     description |-> "Show all mail",
     scope |-> "mail-list"],
    [keys |-> << <<"3">> >>,
     action |-> "showPersonal",
     type |-> "single",
     description |-> "Show personal",
     scope |-> "mail-list"],
    [keys |-> << <<"4">> >>,
     action |-> "showUpdates",
     type |-> "single",
     description |-> "Show updates",
     scope |-> "mail-list"],
    [keys |-> << <<"5">> >>,
     action |-> "showPromotions",
     type |-> "single",
     description |-> "Show promotions",
     scope |-> "mail-list"],
    [keys |-> << <<"6">> >>,
     action |-> "showUnread",
     type |-> "single",
     description |-> "Show unread",
     scope |-> "mail-list"],
    [keys |-> << <<"a", "l", "t">>, <<"s", "h", "i", "f", "t">>, <<"c", "l", "i", "c", "k">> >>,
     action |-> "selectUnderCursor",
     type |-> "combination",
     description |-> "Select under cursor",
     scope |-> "mail-list",
     ignore |-> TRUE]
  >>

\* composeShortcuts: lines 408-423
composeShortcuts ==
  <<
    [keys |-> << <<"m", "o", "d">>, <<"E", "n", "t", "e", "r">> >>,
     action |-> "sendEmail",
     type |-> "combination",
     description |-> "Send email",
     scope |-> "compose"],
    [keys |-> << <<"e", "s", "c", "a", "p", "e">> >>,
     action |-> "closeCompose",
     type |-> "single",
     description |-> "Close compose",
     scope |-> "compose"]
  >>
\* variant: the groups in the order they are declared in the file
keyboardShortcuts_declarationOrder ==
  threadDisplayShortcuts \o navigation \o globalShortcuts
    \o mailListShortcuts \o composeShortcuts

\* lines 425-431
keyboardShortcuts ==
  navigation \o threadDisplayShortcuts \o globalShortcuts
    \o mailListShortcuts \o composeShortcuts

\* ----------------------------------------------------------------- inputs
\* navigator.platform
Platforms ==
  {<<"M", "a", "c", "I", "n", "t", "e", "l">>, <<"W", "i", "n", "3", "2">>}

\* key names a caller may put in a shortcut: the override names, some of
\* them in other letter cases, and names outside the override set
KeyPool ==
  OverrideNames \cup
  {<<"E", "n", "t", "e", "r">>, <<"M", "O", "D">>,
   <<"a">>, <<"z">>, <<"1">>, <<"-">>, k_click, <<>>}

RECURSIVE SeqsUpTo(_, _)
SeqsUpTo(S, n) ==
  IF n = 0 THEN {<<>>}
  ELSE LET shorter == SeqsUpTo(S, n - 1)
       IN shorter \cup {Append(s, x) : s \in {t \in shorter : Len(t) = n - 1}, x \in S}

\* a shortcut with the given keys
ShortcutWith(keys) ==
  [keys |-> keys,
   action |-> "test",
   type |-> IF Len(keys) = 1 THEN "single" ELSE "combination",
   description |-> "Test shortcut",
   scope |-> "test"]

\* shortcuts passed to getDisplayKeysForShortcut
Shortcuts ==
  {ShortcutWith(keys) : keys \in SeqsUpTo(KeyPool, MaxKeys)}
    \cup {keyboardShortcuts[i] : i \in 1..Len(keyboardShortcuts)}

\* records the synthetic batches are made of
RecordPool ==
  {globalShortcuts[1], mailListShortcuts[16], composeShortcuts[1],
   ShortcutWith(<<>>), ShortcutWith(<< <<"a">>, <<"-">> >>)}

\* batches passed to enhanceShortcutsWithMapping
Batches == SeqsUpTo(RecordPool, MaxBatch)

\* records and batches of the stepwise run
StepPool == {navigation[7], ShortcutWith(<< <<"a">>, k_click >>)}

StepBatches == SeqsUpTo(StepPool, MaxBatch)

\* ------------------------------------------------------------------ state
VARIABLES
  registry,        \* the exported keyboardShortcuts
  platform,        \* navigator.platform
  mapper,          \* state of keyboardLayoutMapper
  op,              \* the exported function whose result is held, or "none"
  arg,             \* its argument
  ret,             \* its return value
  calls,           \* the service calls it made, in order
  pc,              \* position of the stepwise run of enhanceShortcutsWithMapping
  shortcuts,       \* its argument
  idx,             \* index of the record being enhanced
  detectedLayout,  \* the local of the running getDisplayKeysForShortcut
  kidx,            \* index of the next key of shortcut.keys.map
  display,         \* labels produced so far for the record
  out,             \* enhanced records produced so far
  log,             \* service calls of the running getDisplayKeysForShortcut
  entered,         \* per record: the mapper's state when its call began
  snapshots,       \* per record: the layout its call read
  consulted,       \* the <<record, key>> positions whose callback called the services
  stale,           \* the positions resolved after the detected layout had changed
  changes          \* layout changes during the stepwise run

callVars == <<op, arg, ret, calls>>

stepVars ==
  <<pc, shortcuts, idx, detectedLayout, kidx, display, out, log, entered,
    snapshots, consulted, stale, changes>>

vars == <<registry, platform, mapper, callVars, stepVars>>

\* the module has been evaluated: the registry is built and line 436 has
\* enhanced it under the mapper's state at load time
Init ==
  /\ registry = keyboardShortcuts
  /\ platform \in Platforms
  /\ mapper \in MapperStates
  /\ op = "enhanceShortcutsWithMapping"
  /\ arg = keyboardShortcuts
  /\ ret = enhanceShortcutsWithMapping(keyboardShortcuts, mapper, platform).ret
  /\ calls = enhanceShortcutsWithMapping(keyboardShortcuts, mapper, platform).calls
  /\ pc = "idle"
  /\ shortcuts = <<>>
  /\ idx = 0
  /\ detectedLayout = Undefined
  /\ kidx = 0
  /\ display = <<>>
  /\ out = <<>>
  /\ log = <<>>
  /\ entered = <<>>
  /\ snapshots = <<>>
  /\ consulted = {}
  /\ stale = {}
  /\ changes = 0

\* ---------------------------------------------------- calls run to completion
\* a caller renders one shortcut
CallGetDisplayKeys ==
  /\ pc = "idle"
  /\ op = "none"
  /\ \E shortcut \in Shortcuts :
       LET r == getDisplayKeysForShortcut(shortcut, mapper, platform)
       IN /\ op' = "getDisplayKeysForShortcut"
          /\ arg' = shortcut
          /\ ret' = r.ret
          /\ calls' = r.calls
  /\ UNCHANGED <<registry, platform, mapper, stepVars>>

\* a caller enhances a batch
CallEnhance ==
  /\ pc = "idle"
  /\ op = "none"
  /\ \E batch \in Batches \cup {registry} :
       LET r == enhanceShortcutsWithMapping(batch, mapper, platform)
       IN /\ op' = "enhanceShortcutsWithMapping"
          /\ arg' = batch
          /\ ret' = r.ret
          /\ calls' = r.calls
  /\ UNCHANGED <<registry, platform, mapper, stepVars>>

\* the caller has rendered the result of the last call
Consume ==
  /\ pc = "idle"
  /\ op /= "none"
  /\ op' = "none"
  /\ arg' = <<>>
  /\ ret' = <<>>
  /\ calls' = <<>>
  /\ UNCHANGED <<registry, platform, mapper, stepVars>>

\* between calls the mapper detects another layout or loads another table
LayoutChange ==
  /\ pc = "idle"
  /\ op = "none"
  /\ mapper' \in MapperStates \ {mapper}
  /\ UNCHANGED <<registry, platform, callVars, stepVars>>

Next == CallGetDisplayKeys \/ CallEnhance \/ Consume \/ LayoutChange

Spec == Init /\ [][Next]_vars

\* ------------------------------------------- enhanceShortcutsWithMapping, stepwise
\* The same code run one statement at a time, with the mapper's state free to
\* change between two statements.

\* enhanceShortcutsWithMapping is entered with a batch
StartEnhance ==
  /\ pc = "idle"
  /\ op = "none"
  /\ \E batch \in StepBatches :
       /\ shortcuts' = batch
       /\ pc' = IF batch = <<>> THEN "done" ELSE "entry"
  /\ idx' = 1
  /\ UNCHANGED <<registry, platform, mapper, callVars, detectedLayout, kidx, display,
                 out, log, entered, snapshots, consulted, stale, changes>>

\* line 30: getDisplayKeysForShortcut(shortcuts[idx]) reads the detected layout
EnterGetDisplayKeys ==
  /\ pc = "entry"
  /\ detectedLayout' = GetDetectedLayout(mapper)
  /\ snapshots' = Append(snapshots, detectedLayout')
  /\ entered' = Append(entered, mapper)
  /\ log' = <<Call("getDetectedLayout", <<>>)>>
  /\ kidx' = 1
  /\ display' = <<>>
  /\ pc' = "keys"
  /\ UNCHANGED <<registry, platform, mapper, callVars, shortcuts, idx, out, consulted,
                 stale, changes>>

\* lines 32-63: the callback runs on the next key
ResolveKey ==
  /\ pc = "keys"
  /\ kidx <= Len(shortcuts[idx].keys)
  /\ LET r == displayKey(shortcuts[idx].keys[kidx], detectedLayout, mapper, platform)
     IN /\ display' = Append(display, r.ret)
        /\ log' = log \o r.calls
        /\ consulted' = IF r.calls /= <<>> THEN consulted \cup {<<idx, kidx>>}
                        ELSE consulted
  /\ stale' = IF GetDetectedLayout(mapper) /= detectedLayout
               THEN stale \cup {<<idx, kidx>>} ELSE stale
  /\ kidx' = kidx + 1
  /\ UNCHANGED <<registry, platform, mapper, callVars, pc, shortcuts, idx, detectedLayout,
                 out, entered, snapshots, changes>>

\* lines 75-79: the labels are returned, mappedKeys is computed and the
\* enhanced record is appended
FinishRecord ==
  /\ pc = "keys"
  /\ kidx > Len(shortcuts[idx].keys)
  /\ out' = Append(out, EnhancedRecord(shortcuts[idx], display,
                                       MapKeys(mapper, KeyCodes(shortcuts[idx]))))
  /\ calls' = calls \o log \o MappingCalls(shortcuts[idx])
  /\ idx' = idx + 1
  /\ pc' = IF idx = Len(shortcuts) THEN "done" ELSE "entry"
  /\ UNCHANGED <<registry, platform, mapper, op, arg, ret, shortcuts, detectedLayout, kidx,
                 display, log, entered, snapshots, consulted, stale, changes>>

\* enhanceShortcutsWithMapping returns
ReturnEnhanced ==
  /\ pc = "done"
  /\ op' = "enhanceShortcutsWithMapping"
  /\ arg' = shortcuts
  /\ ret' = out
  /\ pc' = "idle"
  /\ shortcuts' = <<>>
  /\ idx' = 0
  /\ detectedLayout' = Undefined
  /\ kidx' = 0
  /\ display' = <<>>
  /\ out' = <<>>
  /\ log' = <<>>
  /\ entered' = <<>>
  /\ snapshots' = <<>>
  /\ consulted' = {}
  /\ stale' = {}
  /\ changes' = 0
  /\ UNCHANGED <<registry, platform, mapper, calls>>

\* the mapper detects another layout while the call is running
StepLayoutChange ==
  /\ pc \in {"entry", "keys"}
  /\ changes < MaxLayoutChanges
  /\ \E d \in DetectedLayouts \ {mapper.detected} :
       mapper' = [mapper EXCEPT !.detected = d]
  /\ changes' = changes + 1
  /\ UNCHANGED <<registry, platform, callVars, pc, shortcuts, idx, detectedLayout, kidx,
                 display, out, log, entered, snapshots, consulted, stale>>

NextSteps ==
  \/ Consume
  \/ LayoutChange
  \/ StartEnhance
  \/ EnterGetDisplayKeys
  \/ ResolveKey
  \/ FinishRecord
  \/ ReturnEnhanced
  \/ StepLayoutChange

SpecSteps == Init /\ [][NextSteps]_vars

\* ------------------------------------------------------------- properties
DisplayCall == op = "getDisplayKeysForShortcut"

EnhanceCall == op = "enhanceShortcutsWithMapping"

\* the key matches a case label of the switch in some letter case
IsOverride(key) == ToLowerCase(key) \in OverrideNames

\* the platform identifier contains "Mac"
ContainsMac(p) ==
  \E i \in 1..(Len(p) - 2) : p[i] = "M" /\ p[i + 1] = "a" /\ p[i + 2] = "c"

\* the detected layout is absent or is the default
DefaultLayout(m) == ~m.detected.defined \/ m.detected.layout = "qwerty"

\* the fixed label of an override name
OverrideLabel(name, p) ==
  CASE name = k_mod -> IF ContainsMac(p) THEN Cmd ELSE Ctrl
    [] name = k_meta -> Cmd
    [] name = k_ctrl -> Ctrl
    [] name = k_control -> Ctrl
    [] name = k_alt -> IF ContainsMac(p) THEN Opt ELSE Alt
    [] name = k_shift -> ShiftGlyph
    [] name = k_escape -> Esc
    [] name = k_backspace -> BackspaceGlyph
    [] name = k_enter -> EnterGlyph
    [] name = k_space -> Space

Win32 == <<"W", "i", "n", "3", "2">>

\* C1: getDisplayKeysForShortcut returns one label per key, in order: the
\* result is as long as keys and the label at position i is the label of
\* keys[i] alone, for every keys sequence, layout and platform.
Thm_C1 ==
  DisplayCall =>
    /\ Len(ret) = Len(arg.keys)
    /\ \A i \in 1..Len(arg.keys) :
         ret[i] = keyLabel(arg.keys[i], mapper.detected, mapper, platform).ret

\* a two-key shortcut with an empty key name, rendered under a non-default layout
Wit_C1 ==
  /\ DisplayCall
  /\ arg.keys = << <<>>, <<"a">> >>
  /\ mapper.detected = Layout("azerty")
  /\ mapper.table = "azerty"
  /\ ret = << <<>>, <<"Q">> >>

\* C2: a key that is an override name in any letter case gets its fixed
\* label under every detected layout, and neither the code lookup nor the
\* layout mapping is called for it.
Thm_C2 ==
  DisplayCall =>
    /\ Len(ret) = Len(arg.keys)
    /\ \A i \in 1..Len(arg.keys) :
         IsOverride(arg.keys[i]) =>
           ret[i] = OverrideLabel(ToLowerCase(arg.keys[i]), platform)
    /\ \A c \in 1..Len(calls) :
         /\ calls[c].fn = "getKeyCodeFromKey" => ~IsOverride(calls[c].arg)
         /\ calls[c].fn = "getKeyForCode" =>
              \A i \in 1..Len(arg.keys) :
                IsOverride(arg.keys[i]) =>
                  calls[c].arg /= GetKeyCodeFromKey(arg.keys[i])

\* 'Enter' and 'escape' rendered under a non-default layout
Wit_C2 ==
  /\ DisplayCall
  /\ arg.keys = << <<"E", "n", "t", "e", "r">>, k_escape >>
  /\ mapper.detected = Layout("qwertz")
  /\ mapper.table = "qwertz"
  /\ ret = <<EnterGlyph, Esc>>
  /\ Len(calls) = 1

\* C3: 'mod' is the command glyph when the platform contains "Mac" and Ctrl
\* otherwise, 'alt' is the option glyph or Alt likewise, 'meta' is the
\* command glyph and 'ctrl'/'control' are Ctrl on every platform; ['mod','z']
\* off the Mac under the default layout is ['Ctrl','Z'].
Thm_C3 ==
  DisplayCall =>
    /\ Len(ret) = Len(arg.keys)
    /\ \A i \in 1..Len(arg.keys) :
         LET name == ToLowerCase(arg.keys[i])
         IN /\ name = k_mod => ret[i] = IF ContainsMac(platform) THEN Cmd ELSE Ctrl
            /\ name = k_alt => ret[i] = IF ContainsMac(platform) THEN Opt ELSE Alt
            /\ name = k_meta => ret[i] = Cmd
            /\ name \in {k_ctrl, k_control} => ret[i] = Ctrl
    /\ (arg.keys = <<k_mod, <<"z">> >> /\ ~ContainsMac(platform) /\ DefaultLayout(mapper))
         => ret = <<Ctrl, <<"Z">> >>

\* ['mod','z'] rendered off the Mac under the default layout
Wit_C3 ==
  /\ DisplayCall
  /\ arg = globalShortcuts[1]
  /\ platform = Win32
  /\ mapper.detected = Layout("qwerty")
  /\ ret = <<Ctrl, <<"Z">> >>

\* C4: with no detected layout or with 'qwerty', a key outside the override
\* set is shown as itself, upper-cased if it is one character long, and the
\* code lookup and the layout mapping are not called.
Thm_C4 ==
  (DisplayCall /\ DefaultLayout(mapper)) =>
    /\ Len(ret) = Len(arg.keys)
    /\ \A i \in 1..Len(arg.keys) :
         ~IsOverride(arg.keys[i]) =>
           ret[i] = IF Len(arg.keys[i]) = 1 THEN ToUpperCase(arg.keys[i])
                    ELSE arg.keys[i]
    /\ calls = <<Call("getDetectedLayout", <<>>)>>
    /\ (arg.keys = <<k_alt, k_shift, k_click>> /\ ContainsMac(platform))
         => ret = <<Opt, ShiftGlyph, k_click>>

\* 'a' and 'click' under 'qwerty' while the mapper holds a remapping table
Wit_C4 ==
  /\ DisplayCall
  /\ mapper.detected = Layout("qwerty")
  /\ mapper.table = "azerty"
  /\ arg.keys = << <<"a">>, k_click >>
  /\ ret = << <<"A">>, k_click >>

\* C5: with a detected layout other than 'qwerty', a key outside the
\* override set is shown as getKeyForCode(getKeyCodeFromKey(key)), upper-cased
\* if that mapped label is one character long and verbatim otherwise; the
\* two services are called once for each such key.
Thm_C5 ==
  (DisplayCall /\ mapper.detected.defined /\ mapper.detected.layout /= "qwerty") =>
    /\ Len(ret) = Len(arg.keys)
    /\ \A i \in 1..Len(arg.keys) :
         ~IsOverride(arg.keys[i]) =>
           LET mappedKey == GetKeyForCode(mapper, GetKeyCodeFromKey(arg.keys[i]))
           IN ret[i] = IF Len(mappedKey) = 1 THEN ToUpperCase(mappedKey)
                       ELSE mappedKey
    /\ Cardinality({c \in 1..Len(calls) : calls[c].fn = "getKeyForCode"})
         = Cardinality({i \in 1..Len(arg.keys) : ~IsOverride(arg.keys[i])})

\* the one-character key 'a' whose mapped label 'KeyA' is shown verbatim
Wit_C5 ==
  /\ DisplayCall
  /\ mapper.detected = Layout("azerty")
  /\ mapper.table = "pass"
  /\ arg.keys = << <<"a">>, <<"1">> >>
  /\ ret = << <<"K", "e", "y", "A">>, <<"D", "i", "g", "i", "t", "1">> >>

\* C6 as stated: in every branch a one-character key outside the override
\* set is shown upper-cased and a longer name outside the override set is
\* shown unchanged.
Orig_C6 ==
  DisplayCall =>
    /\ Len(ret) = Len(arg.keys)
    /\ \A i \in 1..Len(arg.keys) :
         ~IsOverride(arg.keys[i]) =>
           /\ Len(arg.keys[i]) = 1 => ret[i] = ToUpperCase(ret[i])
           /\ Len(arg.keys[i]) > 1 => ret[i] = arg.keys[i]

\* C6, amended: with no detected layout or with 'qwerty', a one-character
\* key outside the override set is shown upper-cased and a longer name is
\* shown unchanged. With a detected layout other than 'qwerty' the label is
\* the mapped label of the key: upper-cased when the mapped label is one
\* character long, verbatim otherwise, so a longer name is shown unchanged
\* exactly when the services map it to itself.
Thm_C6 ==
  DisplayCall =>
    /\ Len(ret) = Len(arg.keys)
    /\ \A i \in 1..Len(arg.keys) :
         LET key == arg.keys[i]
             mappedKey == GetKeyForCode(mapper, GetKeyCodeFromKey(key))
         IN ~IsOverride(key) =>
              IF DefaultLayout(mapper)
                THEN /\ Len(key) = 1 => ret[i] = ToUpperCase(key)
                     /\ Len(key) /= 1 => ret[i] = key
                ELSE /\ Len(mappedKey) = 1 => ret[i] = ToUpperCase(mappedKey)
                     /\ Len(mappedKey) /= 1 => ret[i] = mappedKey
                     /\ Len(key) > 1 => (ret[i] = key <=> mappedKey = key)

\* under a non-default layout 'z' is shown as the mapped 'Y' and 'click' as
\* the mapper's label for a code it does not know
Wit_C6 ==
  /\ DisplayCall
  /\ mapper.detected = Layout("qwertz")
  /\ mapper.table = "qwertz"
  /\ arg.keys = << <<"z">>, k_click >>
  /\ ret = << <<"Y">>, <<"U", "n", "i", "d", "e", "n", "t", "i", "f", "i", "e", "d">> >>

\* C7: enhanceShortcutsWithMapping returns one record per input record, in
\* order, also for the empty batch; record i keeps every field of input i
\* and adds displayKeys = getDisplayKeysForShortcut(input i) under the
\* detected layout, and mappedKeys.
Thm_C7 ==
  EnhanceCall =>
    /\ Len(ret) = Len(arg)
    /\ \A i \in 1..Len(arg) :
         /\ DOMAIN ret[i] = (DOMAIN arg[i]) \cup {"displayKeys", "mappedKeys"}
         /\ \A f \in DOMAIN arg[i] : ret[i][f] = arg[i][f]
         /\ Len(ret[i]["displayKeys"]) = Len(arg[i]["keys"])
         /\ \A j \in 1..Len(arg[i]["keys"]) :
              ret[i]["displayKeys"][j]
                = keyLabel(arg[i]["keys"][j], mapper.detected, mapper, platform).ret

\* a batch of two records, one flagged ignore and one preventDefault,
\* enhanced under a non-default layout
Wit_C7 ==
  /\ EnhanceCall
  /\ arg = <<mailListShortcuts[16], globalShortcuts[1]>>
  /\ mapper.detected = Layout("azerty")
  /\ mapper.table = "azerty"
  /\ Len(ret) = 2
  /\ ret[1]["ignore"] = TRUE
  /\ ret[1]["displayKeys"][3] = k_click
  /\ ret[2]["preventDefault"] = TRUE
  /\ ret[2]["displayKeys"][2] = <<"W">>

\* C8: mappedKeys has one entry per key, in order, entry i being the layout
\* mapper's label for getKeyCodeFromKey(keys[i]); override names are mapped
\* like any other key and mapKeys is called for every record under every
\* detected layout, the default and the absent one included.
Thm_C8 ==
  EnhanceCall =>
    /\ Len(ret) = Len(arg)
    /\ \A i \in 1..Len(arg) :
         /\ Len(ret[i]["mappedKeys"]) = Len(arg[i]["keys"])
         /\ \A j \in 1..Len(arg[i]["keys"]) :
              ret[i]["mappedKeys"][j]
                = GetKeyForCode(mapper, GetKeyCodeFromKey(arg[i]["keys"][j]))
    /\ Cardinality({c \in 1..Len(calls) : calls[c].fn = "mapKeys"}) = Len(arg)

\* ['mod','z'] enhanced with no detected layout while the mapper holds a
\* remapping table: the label shown is 'Z', the mapped key is 'w'
Wit_C8 ==
  /\ EnhanceCall
  /\ arg = <<globalShortcuts[1]>>
  /\ mapper.detected = Undefined
  /\ mapper.table = "azerty"
  /\ ret[1]["displayKeys"] = <<ModLabel(platform), <<"Z">> >>
  /\ ret[1]["mappedKeys"] = <<k_mod, <<"w">> >>

ScopeGroups ==
  <<navigation, threadDisplayShortcuts, globalShortcuts, mailListShortcuts,
    composeShortcuts>>

ScopeNames == <<"navigation", "thread-display", "global", "mail-list", "compose">>

\* number of records in the groups before group g
RECURSIVE GroupOffset(_)
GroupOffset(g) == IF g = 1 THEN 0 ELSE GroupOffset(g - 1) + Len(ScopeGroups[g - 1])

ScopeRank(scope) == CHOOSE g \in 1..Len(ScopeNames) : ScopeNames[g] = scope

\* C9: the flattened registry is as long as the five groups together and is
\* their concatenation in the order navigation, thread-display, global,
\* mail-list, compose: each group is a contiguous run in its own order and
\* the scopes never go back to an earlier group.
Thm_C9 ==
  /\ Len(registry) = GroupOffset(5) + Len(ScopeGroups[5])
  /\ \A g \in 1..5 :
       /\ SubSeq(registry, GroupOffset(g) + 1,
                 GroupOffset(g) + Len(ScopeGroups[g])) = ScopeGroups[g]
       /\ \A i \in (GroupOffset(g) + 1)..(GroupOffset(g) + Len(ScopeGroups[g])) :
            registry[i].scope = ScopeNames[g]
  /\ \A i, j \in 1..Len(registry) :
       i < j => ScopeRank(registry[i].scope) <= ScopeRank(registry[j].scope)

\* the module has been loaded: the whole registry has been enhanced
Wit_C9 ==
  /\ Len(registry) = 34
  /\ EnhanceCall
  /\ arg = registry
  /\ Len(ret) = 34
  /\ ret[1]["scope"] = "navigation"
  /\ ret[8]["scope"] = "thread-display"
  /\ ret[34]["scope"] = "compose"

\* the <<record, key>> positions the stepwise run has resolved
Resolved ==
  {p \in UNION {{<<r, j>> : j \in 1..Len(shortcuts[r].keys)} : r \in 1..Len(shortcuts)} :
     \/ p[1] < idx
     \/ p[1] = idx /\ pc = "keys" /\ p[2] < kidx}

\* C10: getDisplayKeysForShortcut reads the detected layout once, before any
\* key is resolved, and tests every key of the record against that value
\* even when the detector's state changes during the call;
\* enhanceShortcutsWithMapping reads it again for every record, each record
\* being resolved against the detector's state at the moment its own call
\* began, so the records of a batch agree when the layout did not change.
Thm_C10 ==
  /\ pc = "keys" =>
       /\ Len(log) >= 1
       /\ log[1].fn = "getDetectedLayout"
       /\ \A c \in 2..Len(log) : log[c].fn /= "getDetectedLayout"
       /\ detectedLayout = snapshots[idx]
  /\ Len(snapshots) = (IF pc = "keys" THEN idx ELSE IF pc = "idle" THEN 0 ELSE idx - 1)
  /\ Len(entered) = Len(snapshots)
  /\ \A r \in 1..Len(snapshots) : snapshots[r] = GetDetectedLayout(entered[r])
  /\ \A p \in Resolved :
       ~IsOverride(shortcuts[p[1]].keys[p[2]]) =>
         (p \in consulted <=> LayoutAware(snapshots[p[1]]))
  /\ (pc /= "idle" /\ changes = 0) =>
       \A r \in 1..Len(snapshots) : snapshots[r] = GetDetectedLayout(mapper)

\* one batch holds the same record twice; the layout changed while the first
\* was being resolved, its second key was still tested against the layout
\* read at entry, and the two records ended with different labels
Wit_C10 ==
  /\ pc = "done"
  /\ Len(out) = 2
  /\ shortcuts[1] = shortcuts[2]
  /\ snapshots[1] /= snapshots[2]
  /\ <<1, 2>> \in stale
  /\ <<1, 2>> \notin consulted
  /\ <<2, 2>> \in consulted
  /\ out[1]["displayKeys"] /= out[2]["displayKeys"]

====
